---- MODULE Spec2Model ----
(***************************************************************************)
(* Model of the chatbot backend: the credential store and token codec of   *)
(* auth_service.py, the SQLite store of database_sqlite.py and the request *)
(* handlers of main_sqlite.py.                                             *)
(*                                                                         *)
(* SpecReg, SpecToken and SpecAuth cover registration, login and session   *)
(* resolution; SpecStore and SpecConv cover the conversation store and the *)
(* conversation endpoints, SpecConv letting the handlers and the two       *)
(* halves of the chat requests interleave freely, which includes every run *)
(* of the server.  SpecLoop, SpecChat and SpecFault serve the requests one *)
(* at a time, as the one event loop does; SpecList and SpecPreview cover   *)
(* the listing of the conversations.                                       *)
(*                                                                         *)
(* Optional values are sets with at most one element ({} is Python's None);*)
(* an Optional integer id is 0 for None (the code only tests truthiness).  *)
(* Time is the wall clock in whole seconds, the resolution of both         *)
(* CURRENT_TIMESTAMP and the JWT exp claim.                                *)
(***************************************************************************)
EXTENDS Integers, Sequences, FiniteSets, TLC

VARIABLES users, userSeq, conversations, convSeq, messages, msgSeq,
          now, tokens, task, resp

vars == <<users, userSeq, conversations, convSeq, messages, msgSeq,
          now, tokens, task, resp>>

(***************************************************************************)
(* Bounds of the model                                                     *)
(***************************************************************************)
NumWorkers == 2
MaxUserSeq == 2
MaxTokens == 1
MaxAuthTime == 1801
MaxConvSeq == 2
MaxMsgSeq == 3
MaxConvTime == 1

Workers == 1..NumWorkers
Usernames == {"alice", "bob"}
Emails == {"a@x.com", "b@x.com"}
Passwords == {"secret123", "hunter2"}
ClockSteps == {1800, 1801}
UserCreateInputs == [username : Usernames, email : Emails, password : {"secret123"}]
UserLoginInputs == [username : Usernames, password : Passwords]

(***************************************************************************)
(* auth_service.py: constants and the token codec                          *)
(***************************************************************************)
SECRET_KEY == "your-secret-key-change-this-in-production"
ACCESS_TOKEN_EXPIRE_MINUTES == 30

None == {}

hash_password(password) == <<"bcrypt", password>>

verify_password(plain_password, hashed_password) ==
    hashed_password = <<"bcrypt", plain_password>>

\* jwt.encode: the claims of data plus exp, signed with SECRET_KEY.
create_access_token(data, t) ==
    [fmt |-> "jwt", key |-> SECRET_KEY, sub |-> data.sub,
     user_id |-> data.user_id,
     exp |-> t + ACCESS_TOKEN_EXPIRE_MINUTES * 60]

\* Mutant: the expiry of the token is not enforced.
verify_token_noexp(token, t) ==
    IF token.fmt = "jwt" /\ token.key = SECRET_KEY
    THEN {[sub |-> token.sub, user_id |-> token.user_id, exp |-> token.exp]}
    ELSE None

\* jwt.decode raises JWTError on a malformed token, on a signature that
\* does not verify under SECRET_KEY and on exp < now; all become None.
verify_token(token, t) ==
    IF token.fmt = "jwt" /\ token.key = SECRET_KEY /\ ~(token.exp < t)
    THEN {[sub |-> token.sub, user_id |-> token.user_id, exp |-> token.exp]}
    ELSE None

(***************************************************************************)
(* database_sqlite.py: the users table                                     *)
(***************************************************************************)
get_user_by_username(us, username) == {u \in us : u.username = username}

get_user_by_email(us, email) == {u \in us : u.email = email}

\* Mutant: the users table without its UNIQUE constraints.
create_user_nounique(us, seq, username, email, password_hash, t) ==
    [users |-> us \cup {[id |-> seq + 1, username |-> username,
                         email |-> email, password_hash |-> password_hash,
                         created_at |-> t]},
     seq |-> seq + 1, lastrowid |-> seq + 1]

\* INSERT INTO users: the UNIQUE constraints on username and email make the
\* insert raise, which create_user turns into None; ids come from
\* AUTOINCREMENT and are never reused.
create_user(us, seq, username, email, password_hash, t) ==
    IF \E u \in us : u.username = username \/ u.email = email
    THEN [users |-> us, seq |-> seq, lastrowid |-> 0]
    ELSE [users |-> us \cup {[id |-> seq + 1, username |-> username,
                              email |-> email, password_hash |-> password_hash,
                              created_at |-> t]},
          seq |-> seq + 1, lastrowid |-> seq + 1]

UserResponse(u) ==
    [id |-> u.id, username |-> u.username, email |-> u.email,
     created_at |-> u.created_at]

(***************************************************************************)
(* auth_service.py: registration, login, session resolution                *)
(***************************************************************************)
\* register_user, first half: the two lookups that precede the insert.
register_user_check(us, user_data) ==
    /\ get_user_by_username(us, user_data.username) = None
    /\ get_user_by_email(us, user_data.email) = None

\* register_user, second half: hash, insert, build the UserResponse.
register_user_create(us, seq, user_data, t) ==
    LET r == create_user(us, seq, user_data.username, user_data.email,
                         hash_password(user_data.password), t)
    IN [users |-> r.users, seq |-> r.seq,
        result |-> IF r.lastrowid # 0
                   THEN {[id |-> r.lastrowid, username |-> user_data.username,
                          email |-> user_data.email, created_at |-> t]}
                   ELSE None]

\* Mutant: the password is not verified.
authenticate_user_nopw(us, login_data, t) ==
    LET user == get_user_by_username(us, login_data.username)
    IN IF user = None THEN None
       ELSE LET u == CHOOSE x \in user : TRUE
            IN {[access_token |->
                     create_access_token([sub |-> u.username, user_id |-> u.id], t),
                 token_type |-> "bearer", user |-> UserResponse(u)]}

authenticate_user(us, login_data, t) ==
    LET user == get_user_by_username(us, login_data.username)
    IN IF user = None THEN None
       ELSE LET u == CHOOSE x \in user : TRUE
            IN IF ~verify_password(login_data.password, u.password_hash)
               THEN None
               ELSE {[access_token |->
                          create_access_token([sub |-> u.username,
                                               user_id |-> u.id], t),
                      token_type |-> "bearer", user |-> UserResponse(u)]}

get_current_user(token, us, t) ==
    LET payload == verify_token(token, t)
    IN IF payload = None THEN None
       ELSE LET p == CHOOSE x \in payload : TRUE
            IN IF p.sub = "" THEN None
               ELSE {UserResponse(u) : u \in get_user_by_username(us, p.sub)}

(***************************************************************************)
(* Requests in flight, responses, tokens a client can present              *)
(***************************************************************************)
IdleTask == [pc |-> "idle", data |-> {}, token |-> {}, conversation_id |-> 0,
             history |-> <<>>, reply |-> "", failed |-> {}]

\* The outcome of the last request answered: op names the handler, status is
\* the HTTP status (0 for a direct call of a db_manager method), id, ok, user,
\* token, rows and text carry what the handler returned, count the rows it
\* returned or removed.
Response(op, status, id, ok, user, token, rows, text) ==
    [op |-> op, status |-> status, id |-> id, ok |-> ok, user |-> user,
     token |-> token, rows |-> rows, text |-> text,
     count |-> Len(rows)]

\* A request is handed to the lowest-numbered worker that is idle.
Accepts(w) ==
    /\ task[w].pc = "idle"
    /\ \A v \in Workers : v < w => task[v].pc # "idle"

\* Tokens not minted by the server: garbage, and well-formed tokens signed
\* with a key other than SECRET_KEY.
ForgedTokens ==
    {[fmt |-> "garbage", key |-> "", sub |-> "", user_id |-> 0, exp |-> 0]}
    \cup [fmt : {"jwt"}, key : {"attacker-key"}, sub : {"alice"},
          user_id : {1}, exp : {3600}]

(***************************************************************************)
(* Initial state: an empty store, no request in flight                     *)
(***************************************************************************)
Init ==
    /\ users = {}
    /\ userSeq = 0
    /\ conversations = {}
    /\ convSeq = 0
    /\ messages = {}
    /\ msgSeq = 0
    /\ now = 0
    /\ tokens = {}
    /\ task = [w \in Workers |-> IdleTask]
    /\ resp = Response("none", 0, 0, FALSE, {}, {}, <<>>, "")

convVars == <<conversations, convSeq, messages, msgSeq>>

(***************************************************************************)
(* main_sqlite.py: the authentication endpoints                            *)
(***************************************************************************)
\* POST /auth/register up to the insert: a failed lookup check makes
\* register_user return None, which the endpoint answers with 400.  The text
\* of a 400 tells which return None of register_user produced it.
RegisterCheck(w, user_data) ==
    /\ Accepts(w)
    /\ IF register_user_check(users, user_data)
       THEN /\ task' = [task EXCEPT ![w] = [IdleTask EXCEPT !.pc = "register",
                                                            !.data = {user_data}]]
            /\ UNCHANGED resp
       ELSE /\ resp' = Response("register", 400, 0, FALSE, {}, {}, <<>>, "lookup")
            /\ UNCHANGED task
    /\ UNCHANGED <<users, userSeq, now, tokens, convVars>>

\* POST /auth/register from the insert on.
RegisterCreate(w) ==
    /\ task[w].pc = "register"
    /\ userSeq < MaxUserSeq
    /\ LET user_data == CHOOSE d \in task[w].data : TRUE
           r == register_user_create(users, userSeq, user_data, now)
       IN /\ users' = r.users
          /\ userSeq' = r.seq
          /\ resp' = IF r.result # None
                     THEN Response("register", 200, 0, TRUE, r.result, {}, <<>>, "")
                     ELSE Response("register", 400, 0, FALSE, {}, {}, <<>>, "insert")
    /\ task' = [task EXCEPT ![w] = IdleTask]
    /\ UNCHANGED <<now, tokens, convVars>>

\* Mutant: a login that tells an unknown username from a wrong password.
login_tells_unknown(us, login_data, t) ==
    LET login_response == authenticate_user(us, login_data, t)
    IN IF login_response = None
       THEN [status |-> 401,
             detail |-> IF get_user_by_username(us, login_data.username) = None
                        THEN "Unknown username"
                        ELSE "Invalid username or password",
             body |-> None]
       ELSE [status |-> 200, detail |-> "", body |-> login_response]

\* The answer of POST /auth/login: the one HTTPException(401) for every
\* None of authenticate_user, else the LoginResponse.
login(us, login_data, t) ==
    LET login_response == authenticate_user(us, login_data, t)
    IN IF login_response = None
       THEN [status |-> 401, detail |-> "Invalid username or password",
             body |-> None]
       ELSE [status |-> 200, detail |-> "", body |-> login_response]

\* POST /auth/login.
Login(login_data) ==
    LET r == login(users, login_data, now)
    IN /\ IF r.status = 200
          THEN LET lr == CHOOSE x \in r.body : TRUE
               IN /\ Cardinality(tokens \cup {lr.access_token}) <= MaxTokens
                  /\ tokens' = tokens \cup {lr.access_token}
                  /\ resp' = Response("login", r.status, 0, TRUE, {lr.user},
                                      {lr.access_token}, <<>>, r.detail)
          ELSE /\ tokens' = tokens
               /\ resp' = Response("login", r.status, 0, FALSE, {}, {}, <<>>,
                                   r.detail)
       /\ UNCHANGED <<users, userSeq, now, task, convVars>>

\* The Depends(get_current_user) of main_sqlite.py: the one
\* HTTPException(401) unless the token resolves to a user.
depends_get_current_user(token, us, t) ==
    LET user == get_current_user(token, us, t)
    IN IF user = None
       THEN [status |-> 401, user |-> None,
             detail |-> "Invalid token or user not found"]
       ELSE [status |-> 200, user |-> user, detail |-> ""]

\* GET /auth/me.
AuthMe(token) ==
    LET d == depends_get_current_user(token, users, now)
    IN /\ resp' = Response("me", d.status, 0, d.status = 200, d.user,
                           {token}, <<>>, d.detail)
       /\ UNCHANGED <<users, userSeq, now, tokens, task, convVars>>

\* A user row is removed from the users table.
DeleteUserRow(u) ==
    /\ u \in users
    /\ users' = users \ {u}
    /\ UNCHANGED <<userSeq, now, tokens, task, resp, convVars>>

AdvanceClock(d) ==
    /\ now + d <= MaxAuthTime
    /\ now' = now + d
    /\ UNCHANGED <<users, userSeq, tokens, task, resp, convVars>>

NextAuth ==
    \/ \E w \in Workers, d \in UserCreateInputs : RegisterCheck(w, d)
    \/ \E w \in Workers : RegisterCreate(w)
    \/ \E d \in UserLoginInputs : Login(d)
    \/ \E t \in tokens \cup ForgedTokens : AuthMe(t)
    \/ \E u \in users : DeleteUserRow(u)
    \/ \E d \in ClockSteps : AdvanceClock(d)

SpecAuth == Init /\ [][NextAuth]_vars

\* Registration alone: the requests that write the users table.
NextReg ==
    \/ \E w \in Workers, d \in UserCreateInputs : RegisterCheck(w, d)
    \/ \E w \in Workers : RegisterCreate(w)
    \/ \E u \in users : DeleteUserRow(u)

SpecReg == Init /\ [][NextReg]_vars

\* alice and bob as stored by two registrations at time 0.
RegisteredUsers ==
    {[id |-> 1, username |-> "alice", email |-> "a@x.com",
      password_hash |-> hash_password("secret123"), created_at |-> 0],
     [id |-> 2, username |-> "bob", email |-> "b@x.com",
      password_hash |-> hash_password("secret123"), created_at |-> 0]}

\* The state after the registration of alice and bob.
InitToken ==
    /\ users = RegisteredUsers
    /\ userSeq = 2
    /\ conversations = {}
    /\ convSeq = 0
    /\ messages = {}
    /\ msgSeq = 0
    /\ now = 0
    /\ tokens = {}
    /\ task = [w \in Workers |-> IdleTask]
    /\ resp = Response("none", 0, 0, FALSE, {}, {}, <<>>, "")

\* Login and session resolution of registered users.
NextToken ==
    \/ \E d \in UserLoginInputs : Login(d)
    \/ \E t \in tokens \cup ForgedTokens : AuthMe(t)
    \/ \E u \in users : DeleteUserRow(u)
    \/ \E d \in ClockSteps : AdvanceClock(d)

SpecToken == InitToken /\ [][NextToken]_vars

(***************************************************************************)
(* database_sqlite.py: conversations and messages                          *)
(***************************************************************************)
ConvIdInputs == 1..MaxConvSeq
OwnerInputs == {1, 2}
RoleInputs == {"user", "assistant", "moderator"}
ContentInputs == {"hello"}
ERROR_REPLY == "I'm sorry, I encountered an error while processing your request."
GenerationOutcomes == {[raised |-> FALSE, content |-> "hi"],
                       [raised |-> TRUE, content |-> ""]}

\* INSERT INTO conversations.
create_conversation(cs, seq, user_id, t) ==
    [conversations |-> cs \cup {[id |-> seq + 1, user_id |-> user_id,
                                 created_at |-> t]},
     seq |-> seq + 1, lastrowid |-> seq + 1]

\* Mutant: the messages table without CHECK (role IN ('user','assistant')).
save_message_nocheck(ms, seq, conversation_id, role, content, t) ==
    [messages |-> ms \cup {[id |-> seq + 1, conversation_id |-> conversation_id,
                            role |-> role, content |-> content,
                            created_at |-> t]},
     seq |-> seq + 1, lastrowid |-> seq + 1]

\* INSERT INTO messages.  The CHECK on role makes the insert raise, which
\* save_message turns into None.  connect() never issues
\* PRAGMA foreign_keys = ON, so SQLite does not enforce the declared
\* FOREIGN KEY (conversation_id): any conversation_id is accepted.
save_message(ms, seq, conversation_id, role, content, t) ==
    IF role \in {"user", "assistant"}
    THEN [messages |-> ms \cup {[id |-> seq + 1,
                                 conversation_id |-> conversation_id,
                                 role |-> role, content |-> content,
                                 created_at |-> t]},
          seq |-> seq + 1, lastrowid |-> seq + 1]
    ELSE [messages |-> ms, seq |-> seq, lastrowid |-> 0]

Known(cs, conversation_id) == \E c \in cs : c.id = conversation_id

MessagesOf(ms, conversation_id) ==
    {m \in ms : m.conversation_id = conversation_id}

\* The results ORDER BY created_at ASC can produce for the rows S: every
\* arrangement of S with non-decreasing created_at.  created_at has a
\* resolution of one second and SQL leaves the order of ties unspecified.
OrderByCreatedAt(S) ==
    {s \in [1..Cardinality(S) -> S] :
        /\ \A i, j \in 1..Cardinality(S) : i # j => s[i] # s[j]
        /\ \A i, j \in 1..Cardinality(S) :
               i < j => s[i].created_at <= s[j].created_at}

\* SELECT role, content ... WHERE conversation_id = ? ORDER BY created_at ASC:
\* the set of results the query can return (never empty; <<>> for no rows).
get_conversation_history(ms, conversation_id) ==
    {[i \in 1..Len(s) |-> [role |-> s[i].role, content |-> s[i].content]] :
        s \in OrderByCreatedAt(MessagesOf(ms, conversation_id))}

\* The set of results get_conversation_with_messages can return; the empty
\* set stands for None (no such conversation).
get_conversation_with_messages(cs, ms, conversation_id) ==
    {[conversation |-> c,
      messages |-> [i \in 1..Len(s) |->
                       [id |-> s[i].id, role |-> s[i].role,
                        content |-> s[i].content,
                        created_at |-> s[i].created_at]]] :
        c \in {x \in cs : x.id = conversation_id},
        s \in OrderByCreatedAt(MessagesOf(ms, conversation_id))}

\* Mutant: only the conversation row is deleted, its messages stay.
delete_conversation_nomsgs(cs, ms, conversation_id) ==
    [conversations |-> {c \in cs : c.id # conversation_id},
     messages |-> ms,
     result |-> \E c \in cs : c.id = conversation_id]

\* DELETE FROM messages, then DELETE FROM conversations, one commit.  The
\* result is cursor.rowcount > 0, and rowcount is that of the last
\* statement executed on the cursor: the DELETE FROM conversations.
delete_conversation(cs, ms, conversation_id) ==
    [conversations |-> {c \in cs : c.id # conversation_id},
     messages |-> {m \in ms : m.conversation_id # conversation_id},
     result |-> \E c \in cs : c.id = conversation_id]

\* SQLite compares TEXT values with the BINARY collation, byte by byte.
\* Collation lists the characters of the model's texts in the order of
\* their code points; Ord(s, k) is the rank of the k-th character of s.
Collation == " ',.INabcdefghijklmnopqrstuvwxyz"

Ord(s, k) ==
    CHOOSE i \in 1..Len(Collation) : SubSeq(Collation, i, i) = SubSeq(s, k, k)

\* a sorts before b: a is a proper prefix of b, or the first character in
\* which they differ is smaller in a.
BinaryLess(a, b) ==
    \/ Len(a) < Len(b) /\ SubSeq(b, 1, Len(a)) = a
    \/ \E k \in 1..(IF Len(a) < Len(b) THEN Len(a) ELSE Len(b)) :
          /\ SubSeq(a, 1, k - 1) = SubSeq(b, 1, k - 1)
          /\ Ord(a, k) < Ord(b, k)

\* The SQL aggregate MIN over the non-NULL texts S (S is not empty).
MIN(S) == CHOOSE v \in S : \A y \in S : v = y \/ BinaryLess(v, y)

\* The SQL aggregate MAX over the non-NULL timestamps S (S is not empty).
MAX(S) == CHOOSE v \in S : \A y \in S : y <= v

\* The SQL function SUBSTR(s, start, length), start >= 1.
SUBSTR(s, start, length) ==
    SubSeq(s, start, IF Len(s) < start + length - 1 THEN Len(s)
                     ELSE start + length - 1)

\* The SQL function COALESCE(a, b) for an optional a.
COALESCE(a, b) == IF a = None THEN b ELSE CHOOSE v \in a : TRUE

\* One row of the query of get_all_conversations: the group of the
\* conversation c in its LEFT JOIN with the messages.  MAX and MIN of a
\* group without a non-NULL value are NULL; the CASE expression is NULL
\* for the messages of the assistant.
ConversationRow(c, ms) ==
    LET group == MessagesOf(ms, c.id)
        user_contents == {m.content : m \in {x \in group : x.role = "user"}}
    IN [id |-> c.id, user_id |-> c.user_id, created_at |-> c.created_at,
        message_count |-> Cardinality(group),
        last_message_at |-> IF group = {} THEN None
                            ELSE {MAX({m.created_at : m \in group})},
        preview |-> IF user_contents = {} THEN None
                    ELSE {SUBSTR(MIN(user_contents), 1, 100)}]

\* The results ORDER BY COALESCE(MAX(m.created_at), c.created_at) DESC can
\* produce for the rows S; the order of rows with equal keys is unspecified.
OrderByActivityDesc(S) ==
    {s \in [1..Cardinality(S) -> S] :
        /\ \A i, j \in 1..Cardinality(S) : i # j => s[i] # s[j]
        /\ \A i, j \in 1..Cardinality(S) :
               i < j => COALESCE(s[i].last_message_at, s[i].created_at)
                            >= COALESCE(s[j].last_message_at, s[j].created_at)}

\* Mutant: the query without WHERE c.user_id = ?.
get_all_conversations_anyowner(cs, ms, user_id) ==
    OrderByActivityDesc({ConversationRow(c, ms) : c \in cs})

\* The set of results get_all_conversations can return.
get_all_conversations(cs, ms, user_id) ==
    OrderByActivityDesc({ConversationRow(c, ms) :
                            c \in {x \in cs : x.user_id = user_id}})

(***************************************************************************)
(* chat_service_sqlite.py                                                  *)
(***************************************************************************)
\* Mutant: without the except clause the apology is never produced.
generate_response_noexcept(history, outcome) == outcome.content

\* The completion call either returns the reply text or raises; any
\* exception is replaced by the fixed apology.
generate_response(history, outcome) ==
    IF outcome.raised THEN ERROR_REPLY ELSE outcome.content

(***************************************************************************)
(* main_sqlite.py: the conversation endpoints                              *)
(***************************************************************************)
authVars == <<users, userSeq, tokens>>

\* Message rows reserved for the replies of the chat requests in flight.
Reserved == Cardinality({w \in Workers : task[w].pc = "generate"})

\* POST /conversations.
PostConversations(user_id) ==
    /\ convSeq < MaxConvSeq
    /\ LET r == create_conversation(conversations, convSeq, user_id, now)
       IN /\ conversations' = r.conversations
          /\ convSeq' = r.seq
          /\ resp' = Response("create", 200, r.lastrowid, TRUE, {}, {}, <<>>, "")
    /\ UNCHANGED <<messages, msgSeq, now, task, authVars>>

\* db_manager.save_message called with arbitrary arguments.
SaveMessage(conversation_id, role, content) ==
    /\ msgSeq + Reserved < MaxMsgSeq
    /\ LET r == save_message(messages, msgSeq, conversation_id, role, content, now)
       IN /\ messages' = r.messages
          /\ msgSeq' = r.seq
          /\ resp' = Response("save_message", 0, r.lastrowid, r.lastrowid # 0,
                              {}, {}, <<>>, role)
    /\ UNCHANGED <<conversations, convSeq, now, task, authVars>>

\* GET /conversations/{conversation_id}/messages.
GetMessages(conversation_id) ==
    /\ \E h \in get_conversation_history(messages, conversation_id) :
          resp' = Response("messages", 200, conversation_id, TRUE, {}, {}, h, "")
    /\ UNCHANGED <<convVars, now, task, authVars>>

\* The handler raises HTTPException(404) inside its own try block, and the
\* except Exception clause, which HTTPException matches, re-raises it as 500.
get_full_conversation_status(conversation_data) ==
    IF conversation_data = None THEN 500 ELSE 200

\* GET /conversations/{conversation_id}/full.
GetFullConversation(conversation_id) ==
    LET r == get_conversation_with_messages(conversations, messages, conversation_id)
    IN /\ IF r = None
          THEN resp' = Response("full", get_full_conversation_status(r),
                                conversation_id, FALSE, {}, {}, <<>>, "")
          ELSE \E d \in r :
                  resp' = Response("full", get_full_conversation_status(r),
                                   conversation_id, TRUE, {}, {}, d.messages, "")
       /\ UNCHANGED <<convVars, now, task, authVars>>

\* As in get_full_conversation, the 404 raised in the try block is caught by
\* except Exception and answered as 500.
delete_conversation_status(success) ==
    IF ~success THEN 500 ELSE 200

\* DELETE /conversations/{conversation_id}.
DeleteConversation(conversation_id) ==
    LET r == delete_conversation(conversations, messages, conversation_id)
    IN /\ conversations' = r.conversations
       /\ messages' = r.messages
       /\ resp' = [Response("delete", delete_conversation_status(r.result),
                            conversation_id, r.result, {}, {}, <<>>, "")
                   EXCEPT !.count = Cardinality(messages \ r.messages)]
       /\ UNCHANGED <<convSeq, msgSeq, now, task, authVars>>

\* The methods of db_manager that POST /chat calls.  Each of them catches
\* every exception of its statement and returns None (or [] for the
\* history) instead; failed names the calls of a request whose statement
\* raised (a locked or unwritable database file).
ChatStartOps == {"create_conversation", "save_message", "get_conversation_history"}
ChatFinishOps == {"save_message"}

\* POST /chat up to the await of generate_response: resolve the user, create
\* the conversation when the request has no conversation_id (0 and None are
\* both falsy), save the user message, fetch the history.  A failed
\* create_conversation is answered 500; the results of save_message and
\* get_conversation_history are not looked at.  The task keeps the request
\* and the calls that failed without ending it.
ChatStart(w, token, request_conversation_id, message, failed) ==
    /\ Accepts(w)
    /\ LET d == depends_get_current_user(token, users, now)
       IN IF d.status # 200
          THEN /\ resp' = Response("chat", d.status, 0, FALSE, {}, {}, <<>>,
                                   d.detail)
               /\ UNCHANGED <<convVars, task>>
          ELSE LET current_user == CHOOSE u \in d.user : TRUE
                   new == request_conversation_id = 0
                   cc == IF "create_conversation" \in failed
                         THEN [conversations |-> conversations, seq |-> convSeq,
                               lastrowid |-> 0]
                         ELSE create_conversation(conversations, convSeq,
                                                  current_user.id, now)
                   conversation_id == IF new THEN cc.lastrowid
                                      ELSE request_conversation_id
                   sm == IF "save_message" \in failed
                         THEN [messages |-> messages, seq |-> msgSeq,
                               lastrowid |-> 0]
                         ELSE save_message(messages, msgSeq, conversation_id,
                                           "user", message, now)
                   histories == IF "get_conversation_history" \in failed
                                THEN {<<>>}
                                ELSE get_conversation_history(sm.messages,
                                                              conversation_id)
               IN /\ new => convSeq < MaxConvSeq
                  /\ msgSeq + Reserved + 2 <= MaxMsgSeq
                  /\ IF new /\ cc.lastrowid = 0
                     THEN /\ resp' = Response("chat", 500, 0, FALSE, {}, {},
                                              <<>>, "Internal server error")
                          /\ UNCHANGED <<convVars, task>>
                     ELSE /\ conversations' = IF new THEN cc.conversations
                                              ELSE conversations
                          /\ convSeq' = IF new THEN cc.seq ELSE convSeq
                          /\ messages' = sm.messages
                          /\ msgSeq' = sm.seq
                          /\ \E h \in histories :
                                task' = [task EXCEPT ![w] =
                                            [IdleTask EXCEPT
                                                !.pc = "generate",
                                                !.data = {[conversation_id |->
                                                              request_conversation_id,
                                                           message |-> message]},
                                                !.token = {token},
                                                !.conversation_id = conversation_id,
                                                !.history = h,
                                                !.failed = failed \
                                                    {"create_conversation"}]]
                          /\ UNCHANGED resp
    /\ UNCHANGED <<now, authVars>>

\* POST /chat from the return of generate_response on: save the reply and
\* answer with it.
ChatFinish(w, outcome, failed) ==
    /\ task[w].pc = "generate"
    /\ LET ai_response == generate_response(task[w].history, outcome)
           sm == IF "save_message" \in failed
                 THEN [messages |-> messages, seq |-> msgSeq, lastrowid |-> 0]
                 ELSE save_message(messages, msgSeq, task[w].conversation_id,
                                   "assistant", ai_response, now)
       IN /\ messages' = sm.messages
          /\ msgSeq' = sm.seq
          /\ resp' = Response("chat", 200, task[w].conversation_id, TRUE, {},
                              {}, <<>>, ai_response)
    /\ task' = [task EXCEPT ![w] = IdleTask]
    /\ UNCHANGED <<conversations, convSeq, now, authVars>>

\* row[5] or "No messages yet": a NULL and an empty preview are both falsy.
preview_or_default(preview) ==
    IF preview = None \/ preview = {""} THEN "No messages yet"
    ELSE CHOOSE v \in preview : TRUE

\* GET /conversations: the rows of get_all_conversations for the
\* authenticated user, last_message_at as the query returned it.
GetConversations(token) ==
    /\ LET d == depends_get_current_user(token, users, now)
       IN IF d.status # 200
          THEN resp' = Response("conversations", d.status, 0, FALSE, {}, {token},
                                <<>>, d.detail)
          ELSE LET current_user == CHOOSE u \in d.user : TRUE
               IN \E rows \in get_all_conversations(conversations, messages,
                                                    current_user.id) :
                     resp' = Response("conversations", 200, 0, TRUE, d.user,
                                      {token},
                                      [i \in 1..Len(rows) |->
                                          [rows[i] EXCEPT !.preview =
                                              preview_or_default(rows[i].preview)]],
                                      "")
    /\ UNCHANGED <<convVars, now, task, authVars>>

\* One second passes.
Tick ==
    /\ now < MaxConvTime
    /\ now' = now + 1
    /\ UNCHANGED <<convVars, task, resp, authVars>>

\* alice and bob are registered and each holds a token from a login.
InitConv ==
    /\ users = RegisteredUsers
    /\ userSeq = 2
    /\ tokens = {create_access_token([sub |-> "alice", user_id |-> 1], 0),
                 create_access_token([sub |-> "bob", user_id |-> 2], 0)}
    /\ conversations = {}
    /\ convSeq = 0
    /\ messages = {}
    /\ msgSeq = 0
    /\ now = 0
    /\ task = [w \in Workers |-> IdleTask]
    /\ resp = Response("none", 0, 0, FALSE, {}, {}, <<>>, "")

NextConv ==
    \/ \E u \in OwnerInputs : PostConversations(u)
    \/ \E c \in ConvIdInputs, r \in RoleInputs, m \in ContentInputs :
          SaveMessage(c, r, m)
    \/ \E c \in ConvIdInputs : GetMessages(c)
    \/ \E c \in ConvIdInputs : GetFullConversation(c)
    \/ \E c \in ConvIdInputs : DeleteConversation(c)
    \/ \E w \in Workers, t \in tokens \cup ForgedTokens,
          c \in {0} \cup ConvIdInputs, m \in ContentInputs :
          ChatStart(w, t, c, m, {})
    \/ \E w \in Workers, o \in GenerationOutcomes : ChatFinish(w, o, {})
    \/ Tick

SpecConv == InitConv /\ [][NextConv]_vars

\* The writes of the store alone: conversations created, messages saved
\* and conversations deleted within one clock second.
NextStore ==
    \/ \E u \in OwnerInputs : PostConversations(u)
    \/ \E c \in ConvIdInputs, r \in RoleInputs, m \in ContentInputs :
          SaveMessage(c, r, m)
    \/ \E c \in ConvIdInputs : DeleteConversation(c)

SpecStore == Init /\ [][NextStore]_vars

\* The handlers run on the one event loop of the one server process
\* (uvicorn.run without workers).  generate_response is declared async but
\* calls the blocking client.chat.completions.create without an await, so
\* the loop runs no other handler from the start of a chat request until
\* its completion call has returned.
LoopIdle == \A w \in Workers : task[w].pc # "generate"

\* The requests other than the chat request in flight that the loop can
\* serve: each is taken up only when the loop is idle.
ServeOthers ==
    /\ LoopIdle
    /\ \/ \E u \in OwnerInputs : PostConversations(u)
       \/ \E t \in tokens \cup ForgedTokens : GetConversations(t)
       \/ \E c \in ConvIdInputs : GetMessages(c)
       \/ \E c \in ConvIdInputs : DeleteConversation(c)
       \/ \E w \in Workers, t \in tokens \cup ForgedTokens,
             c \in {0} \cup ConvIdInputs, m \in ContentInputs :
             ChatStart(w, t, c, m, {})

\* The server as it runs: requests served one at a time, the store also
\* written by direct calls of save_message, the clock advancing on its own.
NextLoop ==
    \/ ServeOthers
    \/ \E w \in Workers, o \in GenerationOutcomes : ChatFinish(w, o, {})
    \/ /\ LoopIdle
       /\ \E c \in ConvIdInputs, r \in RoleInputs, m \in ContentInputs :
             SaveMessage(c, r, m)
    \/ Tick

SpecLoop == InitConv /\ [][NextLoop]_vars

\* Chat requests on new, stored and unknown conversations, served one at
\* a time.
NextChat ==
    \/ LoopIdle /\ \E u \in OwnerInputs : PostConversations(u)
    \/ /\ LoopIdle
       /\ \E w \in Workers, t \in tokens \cup ForgedTokens,
             c \in {0} \cup ConvIdInputs, m \in ContentInputs :
             ChatStart(w, t, c, m, {})
    \/ \E w \in Workers, o \in GenerationOutcomes : ChatFinish(w, o, {})
    \/ Tick

SpecChat == InitConv /\ [][NextChat]_vars

\* Chat requests during which statements of the store may raise.
NextFault ==
    \/ /\ LoopIdle
       /\ \E w \in Workers, t \in tokens \cup ForgedTokens,
             c \in {0} \cup ConvIdInputs, m \in ContentInputs,
             f \in SUBSET ChatStartOps : ChatStart(w, t, c, m, f)
    \/ \E w \in Workers, o \in GenerationOutcomes, f \in SUBSET ChatFinishOps :
          ChatFinish(w, o, f)
    \/ LoopIdle /\ \E c \in ConvIdInputs : GetMessages(c)
    \/ Tick

SpecFault == InitConv /\ [][NextFault]_vars

\* Conversations created, messages saved into stored conversations and the
\* conversations listed by their owners, over several clock seconds.
NextList ==
    \/ \E u \in OwnerInputs : PostConversations(u)
    \/ \E c \in ConvIdInputs :
          Known(conversations, c) /\ SaveMessage(c, "user", "hello")
    \/ \E t \in tokens : GetConversations(t)
    \/ Tick

SpecList == InitConv /\ [][NextList]_vars

\* Texts of user messages: two short ones, the later in the collation
\* first, and one of 101 characters.
LongText ==
    "abcdefghijabcdefghijabcdefghijabcdefghijabcdefghij"
        \o "abcdefghijabcdefghijabcdefghijabcdefghijabcdefghijk"
PreviewInputs == {"hi", "hello", LongText}

\* Conversations created, messages of several texts saved and the
\* conversations listed within one clock second.
NextPreview ==
    \/ \E u \in OwnerInputs : PostConversations(u)
    \/ \E c \in ConvIdInputs, r \in {"user", "assistant"}, m \in PreviewInputs :
          SaveMessage(c, r, m)
    \/ \E t \in tokens \cup ForgedTokens : GetConversations(t)

SpecPreview == InitConv /\ [][NextPreview]_vars

(***************************************************************************)
(* Properties of the credential store and the token codec (SpecAuth)       *)
(***************************************************************************)
UsersUnique ==
    \A u, v \in users :
        (u.username = v.username \/ u.email = v.email) => u = v

Conflicts(us, user_data) ==
    \E u \in us : u.username = user_data.username \/ u.email = user_data.email

\* C1: under every interleaving of registrations no two stored users share a
\* username or an email, and a registration whose username or email is that
\* of a stored user is answered 400 and adds no user record.
C1_UniqueUsers ==
    [][/\ UsersUnique'
       /\ \A w \in Workers, d \in UserCreateInputs :
             (Conflicts(users, d) /\ RegisterCheck(w, d))
                 => /\ users' = users
                    /\ task'[w].pc = "idle"
                    /\ resp'.op = "register" /\ resp'.status = 400
       /\ \A w \in Workers :
             ((\E d \in task[w].data : Conflicts(users, d)) /\ RegisterCreate(w))
                 => /\ users' = users
                    /\ resp'.op = "register" /\ resp'.status = 400]_vars

\* C1 witness: a registration that passed the lookups while its username was
\* free was refused at the insert, because another registration had stored
\* that username in between.
C1_Witness ==
    /\ resp.op = "register" /\ resp.status = 400 /\ resp.text = "insert"
    /\ Cardinality(users) = 1
    /\ userSeq = 1

\* C2: every unexpired token issued for user U resolves to U's stored record
\* while that record exists, and resolves to nothing once it was deleted.
C2_TokenResolvesToIssuee ==
    \A t \in tokens :
        ~(t.exp < now) =>
            get_current_user(t, users, now)
                = {UserResponse(u) : u \in {x \in users : x.id = t.user_id}}

BadToken(t, at) == t.fmt # "jwt" \/ t.key # SECRET_KEY \/ t.exp < at

\* C3: a token that is malformed, or signed with another key, or expired at
\* the time of verification yields no claims from verify_token, and is not
\* resolved to a user.
C3_VerifyFailsClosed ==
    \A t \in tokens \cup ForgedTokens :
        BadToken(t, now) =>
            /\ verify_token(t, now) = None
            /\ get_current_user(t, users, now) = None
            /\ depends_get_current_user(t, users, now).status = 401

\* C3 witness: GET /auth/me with a server-signed token of a user that is
\* still stored was answered 401, the token being expired.
C3_Witness ==
    /\ resp.op = "me" /\ resp.status = 401
    /\ \E t \in resp.token :
          /\ t.key = SECRET_KEY /\ t.exp < now
          /\ \E u \in users : u.id = t.user_id /\ u.username = t.sub

\* C4: a login returns a token exactly when a stored user has the given
\* username and the given password verifies against its hash; the token has
\* that user's username as sub, its id as user_id and expires 1800 seconds
\* after issue; a failed login returns none; tokens appear only at a
\* successful login, and a login leaves the user store unchanged.
C4_TokenOnlyAtLogin ==
    [][/\ \A d \in UserLoginInputs :
             Login(d) =>
                 LET U == {u \in users :
                              /\ u.username = d.username
                              /\ u.password_hash = <<"bcrypt", d.password>>}
                 IN /\ users' = users
                    /\ resp'.op = "login"
                    /\ (resp'.token # {}) <=> (U # {})
                    /\ U # {} =>
                          /\ resp'.status = 200
                          /\ \E u \in U :
                                resp'.token =
                                    {[fmt |-> "jwt", key |-> SECRET_KEY,
                                      sub |-> u.username, user_id |-> u.id,
                                      exp |-> now + 1800]}
                          /\ tokens' = tokens \cup resp'.token
                    /\ U = {} => (resp'.status = 401 /\ tokens' = tokens)
       /\ tokens' # tokens => \E d \in UserLoginInputs : Login(d)]_vars

\* C4 witness: a login succeeded and its token is among the issued tokens.
C4_Witness ==
    /\ resp.op = "login" /\ resp.status = 200
    /\ resp.token # {} /\ resp.token \subseteq tokens
    /\ \E t \in resp.token : \E u \in users : u.id = t.user_id

(***************************************************************************)
(* Properties of the conversation store and its endpoints (SpecConv)       *)
(***************************************************************************)
\* The rows of S in the order in which they were appended: ids are assigned
\* by AUTOINCREMENT in the order of the inserts.
AppendOrder(S) ==
    CHOOSE s \in [1..Cardinality(S) -> S] :
        /\ \A i, j \in 1..Cardinality(S) : i # j => s[i] # s[j]
        /\ \A i, j \in 1..Cardinality(S) : i < j => s[i].id < s[j].id

\* C5: save_message with a role other than "user" and "assistant" returns
\* None and leaves the messages unchanged; with one of the two roles it
\* returns the id of a new message of the given conversation, role and
\* content, and every history of that conversation then has one row more
\* and contains that row.
C5_RoleChecked ==
    [][\A c \in ConvIdInputs, r \in RoleInputs, m \in ContentInputs :
          SaveMessage(c, r, m) =>
              IF r \notin {"user", "assistant"}
              THEN /\ resp'.id = 0 /\ ~resp'.ok
                   /\ messages' = messages
                   /\ msgSeq' = msgSeq
              ELSE /\ resp'.id # 0 /\ resp'.ok
                   /\ \E new \in messages' :
                         /\ messages' = messages \cup {new}
                         /\ new \notin messages
                         /\ new.id = resp'.id
                         /\ new.conversation_id = c
                         /\ new.role = r
                         /\ new.content = m
                   /\ \A h \in get_conversation_history(messages', c) :
                         /\ Len(h) = Cardinality(MessagesOf(messages, c)) + 1
                         /\ \E i \in 1..Len(h) :
                               h[i] = [role |-> r, content |-> m]]_vars

\* C5 witness: a save with role "moderator" was refused while the store
\* holds a message saved earlier.
C5_Witness ==
    /\ resp.op = "save_message" /\ resp.text = "moderator"
    /\ resp.id = 0 /\ ~resp.ok
    /\ messages # {}

\* C6: every stored message refers to a conversation that exists.
C6_MessagesHaveConversation ==
    \A m \in messages : Known(conversations, m.conversation_id)

\* C7: deleting an existing conversation removes its record and all of its
\* messages, so that its history is empty and the conversation is absent,
\* and leaves every other conversation and its messages as they were.
C7_DeleteCascades ==
    [][\A c \in ConvIdInputs :
          (DeleteConversation(c) /\ Known(conversations, c)) =>
              /\ ~Known(conversations', c)
              /\ MessagesOf(messages', c) = {}
              /\ get_conversation_history(messages', c) = {<<>>}
              /\ get_conversation_with_messages(conversations', messages', c) = None
              /\ resp'.count = Cardinality(MessagesOf(messages, c))
              /\ \A x \in conversations : x.id # c => x \in conversations'
              /\ conversations' \subseteq conversations
              /\ \A m \in messages : m.conversation_id # c => m \in messages'
              /\ messages' \subseteq messages]_vars

\* C7 witness: a delete of an existing conversation removed two messages
\* and a message of another conversation is still stored.
C7_Witness ==
    /\ resp.op = "delete" /\ resp.ok /\ resp.count = 2
    /\ \E m \in messages : Known(conversations, m.conversation_id)

\* C8: delete_conversation returns true exactly when it removed a row, be
\* it a message or the conversation record.
C8_DeleteReportsRemoval ==
    [][\A c \in ConvIdInputs :
          DeleteConversation(c) =>
              (resp'.ok <=> (messages' # messages \/ conversations' # conversations))]_vars

\* C9: fetching or deleting a conversation that is not stored is answered
\* with status 404.
C9_UnknownIsNotFound ==
    [][\A c \in ConvIdInputs :
          ((GetFullConversation(c) \/ DeleteConversation(c))
              /\ ~Known(conversations, c)) => resp'.status = 404]_vars

\* C10: each message of a conversation has a creation order greater than
\* that of the messages appended to it earlier, and the history of a stored
\* conversation lists its messages in the order in which they were
\* appended, also when several were appended within one second; it is empty
\* for a conversation without messages.
C10_HistoryInAppendOrder ==
    [][/\ \A m1, m2 \in messages' :
             (/\ Known(conversations', m1.conversation_id)
              /\ m1.conversation_id = m2.conversation_id
              /\ m1.id < m2.id) => m1.created_at < m2.created_at
       /\ \A c \in ConvIdInputs :
             (GetMessages(c) /\ Known(conversations, c)) =>
                 LET s == AppendOrder(MessagesOf(messages, c))
                 IN resp'.rows = [i \in 1..Len(s) |->
                                     [role |-> s[i].role,
                                      content |-> s[i].content]]]_vars

(***************************************************************************)
(* Properties of the chat request and of the listing                       *)
(***************************************************************************)
\* The request of the chat request that worker w is serving.
RequestOf(w) == CHOOSE r \in task[w].data : TRUE

\* The id of the user that the token of a chat request resolves to.
CallerOf(token) == (CHOOSE u \in get_current_user(token, users, now) : TRUE).id

\* The history rows of the messages S in the order of their appends.
RowsInAppendOrder(S) ==
    LET s == AppendOrder(S)
    IN [i \in 1..Len(s) |-> [role |-> s[i].role, content |-> s[i].content]]

\* C11: a chat request without a conversation id by authenticated user U
\* creates exactly one new conversation owned by U (with id 1 on a fresh
\* store), and when it is answered the response carries that id and the
\* reply, the conversation holds exactly two messages, the user message of
\* the request followed by the reply, and the listing of U shows the
\* conversation with message_count = 2.
C11_ChatCreatesConversation ==
    [][/\ \A w \in Workers, t \in tokens, m \in ContentInputs :
             (ChatStart(w, t, 0, m, {}) /\ task'[w].pc = "generate") =>
                 \E c \in conversations' :
                     /\ c \notin conversations
                     /\ conversations' = conversations \cup {c}
                     /\ c.user_id = CallerOf(t)
                     /\ task'[w].conversation_id = c.id
                     /\ convSeq = 0 => c.id = 1
       /\ \A w \in Workers, o \in GenerationOutcomes :
             (ChatFinish(w, o, {}) /\ RequestOf(w).conversation_id = 0) =>
                 LET c == task[w].conversation_id
                     t == CHOOSE x \in task[w].token : TRUE
                 IN /\ resp'.status = 200
                    /\ resp'.id = c
                    /\ resp'.text = generate_response(task[w].history, o)
                    /\ conversations' = conversations
                    /\ RowsInAppendOrder(MessagesOf(messages', c))
                           = <<[role |-> "user", content |-> RequestOf(w).message],
                               [role |-> "assistant", content |-> resp'.text]>>
                    /\ \A rows \in get_all_conversations(conversations', messages',
                                                          CallerOf(t)) :
                           \E i \in 1..Len(rows) :
                               rows[i].id = c /\ rows[i].message_count = 2]_vars

\* C12: when the completion call of a chat request raises, the request is
\* answered 200 with the fixed apology and the id of the conversation, and
\* the apology is stored as one new message of role "assistant" under that
\* conversation id; nothing else is written.
C12_GenerationFailureAbsorbed ==
    [][\A w \in Workers, o \in GenerationOutcomes :
          (ChatFinish(w, o, {}) /\ o.raised) =>
              /\ resp'.op = "chat"
              /\ resp'.status = 200
              /\ resp'.text = ERROR_REPLY
              /\ resp'.id = task[w].conversation_id
              /\ \E new \in messages' :
                    /\ new \notin messages
                    /\ messages' = messages \cup {new}
                    /\ new.conversation_id = resp'.id
                    /\ new.role = "assistant"
                    /\ new.content = ERROR_REPLY
              /\ conversations' = conversations
              /\ task'[w] = IdleTask]_vars

\* C12 witness: a chat request on a stored conversation was answered 200
\* with the apology, which is stored as an assistant message of that
\* conversation after the user message.
C12_Witness ==
    /\ resp.op = "chat" /\ resp.status = 200 /\ resp.text = ERROR_REPLY
    /\ Known(conversations, resp.id)
    /\ \E u, a \in MessagesOf(messages, resp.id) :
          /\ u.role = "user" /\ a.role = "assistant"
          /\ a.content = ERROR_REPLY /\ u.id < a.id

\* C13: a chat request during which a call of the store failed is answered
\* with status 500, be it the create_conversation, the save_message or the
\* get_conversation_history of its first half or the save_message of its
\* second half.
C13_StorageFailureIsServerError ==
    [][/\ \A w \in Workers, t \in tokens, m \in ContentInputs,
             f \in SUBSET ChatStartOps :
             (/\ ChatStart(w, t, 0, m, f)
              /\ "create_conversation" \in f
              /\ depends_get_current_user(t, users, now).status = 200) =>
                 resp'.status = 500
       /\ \A w \in Workers, o \in GenerationOutcomes,
             f \in SUBSET ChatFinishOps :
             (ChatFinish(w, o, f) /\ task[w].failed \cup f # {}) =>
                 resp'.status = 500]_vars

\* C14: a login with a username that is not stored and a login with a
\* stored username and a password that does not verify get the same
\* answer, status 401 with the same detail; a request with a token that
\* does not verify (malformed, signed with another key, expired) and a
\* request with a token that verifies but names no stored user get the
\* same answer, status 401 with the same detail.
C14_AuthFailuresIndistinguishable ==
    /\ \A d1, d2 \in UserLoginInputs :
          (/\ get_user_by_username(users, d1.username) = None
           /\ \E u \in get_user_by_username(users, d2.username) :
                 ~verify_password(d2.password, u.password_hash)) =>
              /\ login(users, d1, now) = login(users, d2, now)
              /\ login(users, d1, now).status = 401
    /\ \A t1, t2 \in tokens \cup ForgedTokens :
          (/\ BadToken(t1, now)
           /\ ~BadToken(t2, now)
           /\ get_user_by_username(users, t2.sub) = None) =>
              /\ depends_get_current_user(t1, users, now)
                     = depends_get_current_user(t2, users, now)
              /\ depends_get_current_user(t1, users, now).status = 401

\* C14 witness: GET /auth/me with an unexpired server-signed token was
\* answered 401 since its user is no longer stored, while another user is
\* stored, so that logins of both failing kinds exist.
C14_Witness ==
    /\ resp.op = "me" /\ resp.status = 401
    /\ \E t \in resp.token :
          ~BadToken(t, now) /\ get_user_by_username(users, t.sub) = None
    /\ users # {}
    /\ \E d \in UserLoginInputs : get_user_by_username(users, d.username) = None

\* The creation time of the most recently appended message of S.
LatestCreatedAt(S) ==
    (CHOOSE m \in S : \A x \in S : x.id <= m.id).created_at

\* The time of the last activity of conversation c.
ActivityOf(c) ==
    IF MessagesOf(messages, c.id) = {} THEN c.created_at
    ELSE LatestCreatedAt(MessagesOf(messages, c.id))

\* C15: get_all_conversations(owner) returns one row for each conversation
\* of that owner and no other row, each with message_count equal to the
\* number of stored messages of that conversation, and no row comes before
\* a row of later activity, the activity of a conversation being the
\* creation time of its most recent message, or its own creation time when
\* it has no message.
C15_ListingOfOwner ==
    \A owner \in OwnerInputs :
        \A rows \in get_all_conversations(conversations, messages, owner) :
            LET owned == {c \in conversations : c.user_id = owner}
                conv(i) == CHOOSE c \in conversations : c.id = rows[i].id
            IN /\ Len(rows) = Cardinality(owned)
               /\ {rows[i].id : i \in 1..Len(rows)} = {c.id : c \in owned}
               /\ \A i \in 1..Len(rows) :
                     /\ rows[i].user_id = owner
                     /\ rows[i].message_count
                            = Cardinality(MessagesOf(messages, rows[i].id))
               /\ \A i, j \in 1..Len(rows) :
                     i < j => ActivityOf(conv(i)) >= ActivityOf(conv(j))

\* C15 witness: a listing of two conversations put the conversation
\* created second first, because it holds a message of a later second than
\* the creation of the other, which is empty.
C15_Witness ==
    /\ resp.op = "conversations" /\ resp.status = 200
    /\ Len(resp.rows) = 2
    /\ resp.rows[1].id > resp.rows[2].id
    /\ resp.rows[1].message_count > 0
    /\ resp.rows[2].message_count = 0
    /\ \E t \in resp.rows[1].last_message_at : t > resp.rows[2].created_at

\* C16: in every row of get_all_conversations of a conversation with a
\* user message the preview is the first 100 characters of the content of
\* the user message appended first.
C16_PreviewIsFirstUserMessage ==
    \A owner \in OwnerInputs :
        \A rows \in get_all_conversations(conversations, messages, owner) :
            \A i \in 1..Len(rows) :
                LET by_user == {m \in MessagesOf(messages, rows[i].id) :
                                   m.role = "user"}
                IN by_user # {} =>
                      rows[i].preview
                          = {SUBSTR(AppendOrder(by_user)[1].content, 1, 100)}

\* C17: in every row of get_all_conversations last_message_at is present
\* and is the creation time of the most recent message of the
\* conversation, or the creation time of the conversation when it has no
\* message.
C17_LastMessageAtPresent ==
    \A owner \in OwnerInputs :
        \A rows \in get_all_conversations(conversations, messages, owner) :
            \A i \in 1..Len(rows) :
                rows[i].last_message_at
                    = {ActivityOf(CHOOSE c \in conversations : c.id = rows[i].id)}

\* C18: while a chat request waits for its completion call, another request
\* can be served.
C18_OthersNotStalled ==
    (\E w \in Workers : task[w].pc = "generate") => ENABLED ServeOthers

\* C19: the first half of a chat request creates the conversation when no
\* id was supplied, then appends the user message, then fetches the
\* history, which is handed to the completion call: it lists every message
\* of the conversation in the order of the appends and ends with the user
\* message of the request; nothing is answered yet.  The second half
\* appends the reply generated from that history and answers with it.
C19_ChatStepsInOrder ==
    [][/\ \A w \in Workers, t \in tokens, c \in {0} \cup ConvIdInputs,
             m \in ContentInputs :
             (ChatStart(w, t, c, m, {}) /\ task'[w].pc = "generate") =>
                 LET cid == task'[w].conversation_id
                     h == task'[w].history
                 IN /\ c = 0 => /\ ~Known(conversations, cid)
                                /\ Known(conversations', cid)
                    /\ c # 0 => cid = c /\ conversations' = conversations
                    /\ \E new \in messages' :
                          /\ new \notin messages
                          /\ messages' = messages \cup {new}
                          /\ new.conversation_id = cid
                          /\ new.role = "user" /\ new.content = m
                    /\ h = RowsInAppendOrder(MessagesOf(messages', cid))
                    /\ h[Len(h)] = [role |-> "user", content |-> m]
                    /\ resp' = resp
       /\ \A w \in Workers, o \in GenerationOutcomes :
             ChatFinish(w, o, {}) =>
                 /\ \E new \in messages' :
                       /\ new \notin messages
                       /\ messages' = messages \cup {new}
                       /\ new.conversation_id = task[w].conversation_id
                       /\ new.role = "assistant"
                       /\ new.content = generate_response(task[w].history, o)
                       /\ resp'.text = new.content
                 /\ resp'.op = "chat" /\ resp'.status = 200]_vars

\* C20: every message that a chat request of user U stores, in its first
\* or in its second half, with or without a supplied conversation_id, is a
\* message of a stored conversation whose owner is U.
C20_ChatWritesOwnConversations ==
    [][/\ \A w \in Workers, t \in tokens, c \in {0} \cup ConvIdInputs,
             m \in ContentInputs :
             ChatStart(w, t, c, m, {}) =>
                 \A x \in messages' \ messages :
                     \E conv \in conversations' :
                         /\ conv.id = x.conversation_id
                         /\ conv.user_id = CallerOf(t)
       /\ \A w \in Workers, o \in GenerationOutcomes :
             ChatFinish(w, o, {}) =>
                 \A x \in messages' \ messages :
                     \E conv \in conversations' :
                         /\ conv.id = x.conversation_id
                         /\ conv.user_id
                                = CallerOf(CHOOSE t \in task[w].token : TRUE)]_vars

====
